---- MODULE Spec2Model ----
(***************************************************************************)
(* Game session and replay state machine of the chessboard application     *)
(* (App component, src/unnamed/part_000) together with the engine-move     *)
(* path, the API key handling and the position analysis of ChessEngine,    *)
(* LichessService and LichessOpeningService (src/src/services).            *)
(*                                                                         *)
(* The rules engine (chess.js) is an external library.  It is modelled on  *)
(* a fragment of real chess: from the starting position White may play     *)
(* f3 and g4 and Black may play e5 and Qh4, each at most once.  Within the *)
(* fragment legality, check and mate are those of chess (Fool's mate,      *)
(* 1. f3 e5 2. g4 Qh4#, is the terminal line).  A FEN is the board and the *)
(* side to move; it does not record the order of the moves that led to     *)
(* it, and a Chess object built from a FEN has an empty history().         *)
(***************************************************************************)
EXTENDS Integers, Sequences, FiniteSets, Bags, TLC

\* ------------------------------------------------------------------ bounds
MaxLog == 2
MaxChat == 2
MaxPending == 1
CursorFloor == 3

\* ------------------------------------------------- rules engine (chess.js)
WhiteMoves == {"f3", "g4"}
BlackMoves == {"e5", "Qh4"}
MoveIds == WhiteMoves \cup BlackMoves

\* from/to squares of each move of the fragment
Origin(m) ==
    CASE m = "f3" -> "f2" [] m = "g4" -> "g2"
      [] m = "e5" -> "e7" [] m = "Qh4" -> "d8"
Target(m) ==
    CASE m = "f3" -> "f3" [] m = "g4" -> "g4"
      [] m = "e5" -> "e5" [] m = "Qh4" -> "h4"

\* new Chess().fen(): no move of the fragment has been played
StartFen == {}

\* chess.turn()
turn(fen) == IF Cardinality(fen) % 2 = 0 THEN "w" ELSE "b"

\* the white king on e1 is attacked by the queen on h4 once f2 is vacated
inCheck(fen) == "Qh4" \in fen /\ "f3" \in fen

\* chess.isCheckmate(): with g4 played the check cannot be blocked on g3
isCheckmate(fen) == inCheck(fen) /\ "g4" \in fen

\* chess.isGameOver()
isGameOver(fen) == isCheckmate(fen)

\* a move of the fragment is legal in the position
legal(fen, m) ==
    /\ m \in MoveIds
    /\ m \notin fen
    /\ (m \in WhiteMoves) = (turn(fen) = "w")
    /\ ~isGameOver(fen)
    /\ (m = "Qh4") => ("e5" \in fen)
    /\ (m = "f3") => ("Qh4" \notin fen)
    /\ (m = "g4") => ~inCheck(fen)

\* the SAN string chess.js gives a move: check and mate are suffixed
san(fen, m) ==
    IF isCheckmate(fen \cup {m}) THEN "Qh4#"
    ELSE IF inCheck(fen \cup {m}) /\ m = "Qh4" THEN "Qh4+"
    ELSE m

\* the move a SAN string names (the parser ignores the check/mate suffix)
parseSan(s) == IF s \in {"Qh4", "Qh4+", "Qh4#"} THEN "Qh4" ELSE s

\* a Chess object: position and the moves made since it was loaded
NewChess == [fen |-> StartFen, hist |-> <<>>]
ChessOf(fen) == [fen |-> fen, hist |-> <<>>]

\* chess.move(san) / chess.move({from, to}): NoMove when it is rejected
NoMove == "none"
moveOfSan(fen, s) == IF legal(fen, parseSan(s)) THEN parseSan(s) ELSE NoMove
moveOfSquares(fen, from, to) ==
    LET ms == {m \in MoveIds : Origin(m) = from /\ Target(m) = to /\ legal(fen, m)}
    IN  IF ms = {} THEN NoMove ELSE CHOOSE m \in ms : TRUE
applyMove(chess, m) ==
    [fen |-> chess.fen \cup {m}, hist |-> Append(chess.hist, san(chess.fen, m))]


\* chess.loadPgn(text): the movetext of the documents offered for import
PgnTexts == {"1. g4", "1. f3 e5 2. g4 Qh4#", "1. f3 f3"}
movetext(text) ==
    CASE text = "1. g4" -> <<"g4">>
      [] text = "1. f3 e5 2. g4 Qh4#" -> <<"f3", "e5", "g4", "Qh4#">>
      [] text = "1. f3 f3" -> <<"f3", "f3">>
      [] OTHER -> <<>>

\* new Chess() followed by move(s) for each SAN of the list, in order;
\* ok is FALSE when one of them is rejected (chess.js throws)
RECURSIVE replay(_, _)
replay(chess, sans) ==
    IF sans = <<>> THEN [ok |-> TRUE, chess |-> chess]
    ELSE LET m == moveOfSan(chess.fen, Head(sans))
         IN  IF m = NoMove THEN [ok |-> FALSE, chess |-> chess]
             ELSE replay(applyMove(chess, m), Tail(sans))
loadPgn(text) == replay(NewChess, movetext(text))

\* newGame.history().map((_, index) => fen after the first index+1 moves)
positionsOf(hist) ==
    [i \in 1..Len(hist) |-> replay(NewChess, SubSeq(hist, 1, i)).chess.fen]

\* ---------------------------------------------------------- localStorage
\* Items are strings; a key that is not set reads as null (NoItem).
NoItem == "null"
IntRange == -9..9
toString(i) ==
    CASE i >= 0 -> <<"0", "1", "2", "3", "4", "5", "6", "7", "8", "9">>[i + 1]
      [] OTHER -> <<"-1", "-2", "-3", "-4", "-5", "-6", "-7", "-8", "-9">>[-i]
parseInt(str) == CHOOSE i \in IntRange : toString(i) = str
EmptyStorage == [chessPgn |-> NoItem, chessMoveIndex |-> NoItem]

\* ------------------------------------------ ChessEngine: narrative client
\* An API key is a string, here the sequence of its characters.
Keys == {<<>>, <<" ">>, <<"s", "k", "-", "1">>,
         <<" ", "A", "I", "z", "a">>, <<"A", "I", "z", "a", "S", "y">>}

\* String.prototype.trim and String.prototype.startsWith
RECURSIVE trimStart(_)
trimStart(str) ==
    IF str # <<>> /\ Head(str) = " " THEN trimStart(Tail(str)) ELSE str
RECURSIVE trimEnd(_)
trimEnd(str) ==
    IF str # <<>> /\ str[Len(str)] = " "
    THEN trimEnd(SubSeq(str, 1, Len(str) - 1)) ELSE str
trim(str) == trimEnd(trimStart(str))
startsWith(str, prefix) ==
    Len(str) >= Len(prefix) /\ SubSeq(str, 1, Len(prefix)) = prefix

\* the fields of a ChessEngine that its methods read: the key, the flag and
\* whether a generative model object is held (genAI is only written)
NewChessEngine == [apiKey |-> <<>>, isInitialized |-> FALSE, model |-> FALSE]

validateApiKey(key) ==
    Len(trim(key)) > 0 /\ startsWith(key, <<"A", "I", "z", "a">>)

\* sdkOk: the GoogleGenerativeAI constructor and getGenerativeModel return
\* (they throw otherwise).  Both only store their arguments, so a session
\* sees them return; the catch of initializeAI is kept for what it does.
SdkOutcomes == {TRUE}
initializeAI(e, sdkOk) ==
    IF ~validateApiKey(e.apiKey) THEN [e EXCEPT !.isInitialized = FALSE]
    ELSE IF sdkOk THEN [e EXCEPT !.model = TRUE, !.isInitialized = TRUE]
    ELSE [e EXCEPT !.isInitialized = FALSE, !.model = FALSE]

setApiKey(e, key, sdkOk) ==
    IF validateApiKey(key)
    THEN [st |-> initializeAI([e EXCEPT !.apiKey = key], sdkOk), ret |-> TRUE]
    ELSE [st |-> e, ret |-> FALSE]

\* What the three clients may answer.  Evaluation: data, or null (404, HTTP
\* error, network failure).  Opening explorer: data, a response with nothing
\* in it, or null.  Narrative: text, an empty text, or a throw.
EvalOutcomes == {"data", "none"}
OpeningOutcomes == {"data", "empty", "none"}
NarrativeOutcomes == {"text", "empty", "throws"}

\* a field an object does not have; the empty string and undefined are falsy
Undefined == "undefined"
truthy(str) == str # Undefined /\ str # ""

formatEvaluation(out) ==
    IF out = "none" THEN "Position not found in Lichess database"
    ELSE "Depth: 30 Line 1: Score: 0.20 Moves: e2e4"
formatOpeningInfo(out) ==
    IF out = "none" THEN "Opening information not available"
    ELSE IF out = "empty" THEN ""
    ELSE "Opening: Barnes Opening (ECO: A00)"

fallbackAnalysis ==
    [summary |-> "API Key Required",
     detailedAnalysis |->
         "Please provide a valid Gemini API key to enable position analysis.",
     lichessEval |-> Undefined, openingInfo |-> Undefined]

\* analyzePosition returns the fallback before any request is made
shortCircuits(e) ==
    ~e.isInitialized \/ ~e.model \/ ~validateApiKey(e.apiKey)

\* analyzePosition: the Analysis Record and the clients that were called
analyzePosition(e, evalOut, openOut, narrOut) ==
    IF shortCircuits(e)
    THEN [analysis |-> fallbackAnalysis, called |-> {}]
    ELSE LET lichessAnalysis == formatEvaluation(evalOut)
             formattedOpeningInfo == formatOpeningInfo(openOut)
         IN  [analysis |->
                IF narrOut = "text"
                THEN [summary |-> "Position analyzed by Gemini AI",
                      detailedAnalysis |-> "Gemini analysis",
                      lichessEval |-> lichessAnalysis,
                      openingInfo |-> formattedOpeningInfo]
                ELSE fallbackAnalysis,
              called |-> {"evaluation", "opening", "narrative"}]

\* the text of the ai entry, as the list of the pieces concatenated
formattedResponse(analysis) ==
    (IF truthy(analysis.openingInfo)
     THEN <<"Opening Information:", analysis.openingInfo>> ELSE <<>>)
    \o (IF truthy(analysis.lichessEval)
        THEN <<"Lichess Analysis:", analysis.lichessEval>> ELSE <<>>)
    \o <<"AI Analysis:", analysis.detailedAnalysis>>

\* ------------------------------------------------------------------ state
VARIABLES
    game, moveHistory, fullMoveHistory, currentMoveIndex,
    playingAgainstEngine, chatMode, isPgnMode, originalPgn,
    playerColor, boardOrientation, showColorModal,
    chatHistory, engineThinking, localStorage, pending, engine, lastOp

vars == <<game, moveHistory, fullMoveHistory, currentMoveIndex,
          playingAgainstEngine, chatMode, isPgnMode, originalPgn,
          playerColor, boardOrientation, showColorModal,
          chatHistory, engineThinking, localStorage, pending, engine, lastOp>>

\* the component's state as one value; handlers map a state to a state
Cur ==
    [game |-> game, moveHistory |-> moveHistory,
     fullMoveHistory |-> fullMoveHistory, currentMoveIndex |-> currentMoveIndex,
     playingAgainstEngine |-> playingAgainstEngine, chatMode |-> chatMode,
     isPgnMode |-> isPgnMode, originalPgn |-> originalPgn,
     playerColor |-> playerColor, boardOrientation |-> boardOrientation,
     showColorModal |-> showColorModal, chatHistory |-> chatHistory,
     engineThinking |-> engineThinking, localStorage |-> localStorage,
     pending |-> pending, engine |-> engine]

\* the useState initial values, over the given storage
InitialState(storage) ==
    [game |-> NewChess, moveHistory |-> <<>>, fullMoveHistory |-> <<>>,
     currentMoveIndex |-> -1, playingAgainstEngine |-> FALSE, chatMode |-> FALSE,
     isPgnMode |-> FALSE, originalPgn |-> "", playerColor |-> "white",
     boardOrientation |-> "white", showColorModal |-> FALSE, chatHistory |-> <<>>,
     engineThinking |-> FALSE, localStorage |-> storage, pending |-> EmptyBag,
     engine |-> NewChessEngine]

\* mutant of persistEffect: the effect is missing
persistEffect_missing(old, new) == new

\* useEffect [isPgnMode, originalPgn, currentMoveIndex]: runs after the render
\* that follows a handler when one of its dependencies changed
persistEffect(old, new) ==
    IF /\ <<new.isPgnMode, new.originalPgn, new.currentMoveIndex>>
            # <<old.isPgnMode, old.originalPgn, old.currentMoveIndex>>
       /\ new.isPgnMode /\ new.originalPgn # ""
    THEN [new EXCEPT !.localStorage =
            [chessPgn |-> new.originalPgn,
             chessMoveIndex |-> toString(new.currentMoveIndex)]]
    ELSE new

\* the session mode the handlers act on: makeMove and handleUndoMove test
\* isPgnMode first, makeMove then chatMode, then playingAgainstEngine
Mode(s) ==
    IF s.isPgnMode THEN "PgnReplay"
    ELSE IF s.chatMode THEN "ChatAnnotated"
    ELSE IF s.playingAgainstEngine THEN "EngineOpponent"
    ELSE "Live"

\* ------------------------------------------- evaluation service, engine move
\* A cloud evaluation: the position it is an evaluation of and the first
\* move of its principal line, in UCI notation; NoEval when the position is
\* not in the database or the request fails (getPositionEvaluation returns
\* null).
NoEval == [found |-> FALSE, fen |-> StartFen, moves |-> ""]
uci(m) ==
    CASE m = "f3" -> "f2f3" [] m = "g4" -> "g2g4"
      [] m = "e5" -> "e7e5" [] m = "Qh4" -> "d8h4"
UciMoves == {uci(m) : m \in MoveIds} \cup {"f2f5"}
\* the positions of the fragment
Positions ==
    {p \in SUBSET MoveIds :
       /\ Cardinality(p \cap WhiteMoves) - Cardinality(p \cap BlackMoves) \in {0, 1}
       /\ "Qh4" \in p => "e5" \in p}
EvalResults ==
    {[found |-> TRUE, fen |-> p, moves |-> u] : p \in Positions, u \in UciMoves}
      \cup {NoEval}
\* uciMove.substring(0, 2) and uciMove.substring(2, 4)
uciFrom(u) == IF \E m \in MoveIds : uci(m) = u
              THEN Origin(CHOOSE m \in MoveIds : uci(m) = u) ELSE "f2"
uciTo(u) == IF \E m \in MoveIds : uci(m) = u
            THEN Target(CHOOSE m \in MoveIds : uci(m) = u) ELSE "f5"

\* LichessService.extractFirstMove: the SAN of the first UCI move on the
\* position of the evaluation, or null
Null == "null"
extractFirstMove(evaluation) ==
    IF ~evaluation.found THEN Null
    ELSE LET m == moveOfSquares(evaluation.fen, uciFrom(evaluation.moves),
                                uciTo(evaluation.moves))
         IN  IF m = NoMove THEN Null ELSE san(evaluation.fen, m)

\* mutant of getBestMove: the suggestion is returned without being tried on
\* the position asked about
getBestMove_unverified(fen, eval) ==
    IF isGameOver(fen) THEN Null
    ELSE IF ~eval.found THEN Null
    ELSE extractFirstMove(eval)

\* ChessEngine.getBestMove: the suggestion, verified legal on the position
getBestMove(fen, eval) ==
    IF isGameOver(fen) THEN Null
    ELSE IF ~eval.found THEN Null
    ELSE LET bestMove == extractFirstMove(eval)
         IN  IF bestMove = Null THEN Null
             ELSE IF moveOfSan(fen, bestMove) = NoMove THEN Null
             ELSE san(fen, moveOfSan(fen, bestMove))

\* makeEngineMove up to its await: the request is outstanding
makeEngineMove(s, currentGame) ==
    IF ~isGameOver(currentGame.fen)
    THEN [s EXCEPT !.engineThinking = TRUE,
                   !.pending = @ (+) SetToBag({[kind |-> "engine", fen |-> currentGame.fen]})]
    ELSE s

\* mutant of engineMoveDone: without a suggestion the thinking flag stays set
engineMoveDone_staysThinking(s, fen, eval) ==
    LET engineMove == getBestMove(fen, eval)
    IN  IF engineMove # Null
        THEN LET engineGameCopy == applyMove(ChessOf(fen), moveOfSan(fen, engineMove))
             IN  persistEffect(s, [s EXCEPT !.game = engineGameCopy,
                                            !.moveHistory = Append(@, engineGameCopy.fen),
                                            !.engineThinking = FALSE])
        ELSE s

\* makeEngineMove after its await, for the position the request was made for
engineMoveDone(s, fen, eval) ==
    LET engineMove == getBestMove(fen, eval)
    IN  IF engineMove # Null
        THEN LET engineGameCopy == applyMove(ChessOf(fen), moveOfSan(fen, engineMove))
             IN  persistEffect(s, [s EXCEPT !.game = engineGameCopy,
                                            !.moveHistory = Append(@, engineGameCopy.fen),
                                            !.engineThinking = FALSE])
        ELSE [s EXCEPT !.engineThinking = FALSE]

\* handleApiKeySubmit with the key typed in the field; setApiKey does not
\* throw, and apiKeyStatus and showApiKey only drive the key panel
handleApiKeySubmit(s, apiKey, sdkOk) ==
    [s EXCEPT !.engine = setApiKey(@, apiKey, sdkOk).st]

\* what an analyzePosition call that went past the key check resolves to
analysisReply(evalOut, openOut, narrOut) ==
    analyzePosition([apiKey |-> <<"A", "I", "z", "a", "S", "y">>,
                     isInitialized |-> TRUE, model |-> TRUE],
                    evalOut, openOut, narrOut).analysis

\* mutant of analysisDone: the thinking flag stays set
analysisDone_staysThinking(s, analysis) ==
    [s EXCEPT !.chatHistory = Append(@, [role |-> "ai",
                                         content |-> formattedResponse(analysis)])]

\* mutant of analysisDone: the ai entry is put in front of the transcript
analysisDone_prepends(s, analysis) ==
    [s EXCEPT !.chatHistory = <<[role |-> "ai",
                                 content |-> formattedResponse(analysis)]>> \o @,
              !.engineThinking = FALSE]

\* makeMove in chat mode after its await: the Analysis Record is delivered
analysisDone(s, analysis) ==
    [s EXCEPT !.chatHistory = Append(@, [role |-> "ai",
                                         content |-> formattedResponse(analysis)]),
              !.engineThinking = FALSE]

\* makeMove's chat branch: the player entry, then analyzePosition.  With an
\* engine that short-circuits the promise is already resolved and the ai
\* entry follows before any other event; otherwise the request to the
\* services is outstanding.
chatBranch(s, moveStr) ==
    LET s3 == [s EXCEPT !.chatHistory = Append(@, [role |-> "player",
                                                   content |-> <<"Played move: ", moveStr>>]),
                        !.engineThinking = TRUE]
    IN  IF shortCircuits(s.engine)
        THEN analysisDone(s3, fallbackAnalysis)
        ELSE [s3 EXCEPT !.pending = @ (+) SetToBag({[kind |-> "analysis"]})]

\* what may be in the chat box when it is submitted
ChatInputs == {<<>>, <<" ">>, <<" ", "h", "i", " ">>}

\* handleChatSubmit with the text typed in the chat box: the user entry,
\* then analyzePosition as in makeMove's chat branch.  analyzePosition does
\* not reject, so the catch with the apology entry is not taken.
handleChatSubmit(s, chatInput) ==
    IF trim(chatInput) = <<>> THEN s
    ELSE LET s3 == [s EXCEPT !.chatHistory = Append(@, [role |-> "user",
                                                        content |-> trim(chatInput)]),
                             !.engineThinking = TRUE]
         IN  IF shortCircuits(s.engine)
             THEN analysisDone(s3, fallbackAnalysis)
             ELSE [s3 EXCEPT !.pending = @ (+) SetToBag({[kind |-> "analysis"]})]

\* mutant of makeMoveBody: the engine is not asked for its reply
makeMoveBody_noEngineRequest(s, from, to) ==
    LET gameCopy == ChessOf(s.game.fen)
        m == moveOfSquares(gameCopy.fen, from, to)
    IN  IF m = NoMove THEN [st |-> s, ret |-> FALSE]
        ELSE
          LET moved == applyMove(gameCopy, m)
              s1 == [s EXCEPT !.game = moved,
                              !.moveHistory = Append(@, moved.fen),
                              !.currentMoveIndex = @ + 1,
                              !.fullMoveHistory = moved.hist]
              s2 == IF s.chatMode
                    THEN chatBranch(s1, san(gameCopy.fen, m))
                    ELSE s1
          IN  [st |-> persistEffect(s, s2), ret |-> TRUE]

\* ---------------------------------------------------------------- handlers
\* makeMove after the replay check, up to its first await
makeMoveBody(s, from, to) ==
    LET gameCopy == ChessOf(s.game.fen)
        m == moveOfSquares(gameCopy.fen, from, to)
    IN  IF m = NoMove THEN [st |-> s, ret |-> FALSE]
        ELSE
          LET moved == applyMove(gameCopy, m)
              s1 == [s EXCEPT !.game = moved,
                              !.moveHistory = Append(@, moved.fen),
                              !.currentMoveIndex = @ + 1,
                              !.fullMoveHistory = moved.hist]
              s2 == IF s.chatMode
                    THEN chatBranch(s1, san(gameCopy.fen, m))
                    ELSE IF /\ s.playingAgainstEngine
                            /\ ~isGameOver(moved.fen)
                            /\ \/ turn(moved.fen) = "b" /\ s.playerColor = "white"
                               \/ turn(moved.fen) = "w" /\ s.playerColor = "black"
                    THEN makeEngineMove(s1, moved)
                    ELSE s1
          IN  [st |-> persistEffect(s, s2), ret |-> TRUE]

makeMove(s, from, to) ==
    IF s.isPgnMode THEN [st |-> s, ret |-> FALSE]
    ELSE makeMoveBody(s, from, to)

\* onDrop's turn check while playing the engine
notPlayersTurn(s) ==
    /\ s.playingAgainstEngine
    /\ \/ turn(s.game.fen) = "w" /\ s.playerColor = "black"
       \/ turn(s.game.fen) = "b" /\ s.playerColor = "white"

\* mutant of onDrop: the turn check while playing the engine is missing
onDrop_noTurnCheck(s, sourceSquare, targetSquare) ==
    IF s.isPgnMode THEN [st |-> s, ret |-> FALSE]
    ELSE makeMove(s, sourceSquare, targetSquare)

\* mutant of onDrop: the replay check is missing on the way to the move
onDrop_noReplayCheck(s, sourceSquare, targetSquare) ==
    IF notPlayersTurn(s) THEN [st |-> s, ret |-> FALSE]
    ELSE makeMoveBody(s, sourceSquare, targetSquare)

onDrop(s, sourceSquare, targetSquare) ==
    IF s.isPgnMode THEN [st |-> s, ret |-> FALSE]
    ELSE IF notPlayersTurn(s) THEN [st |-> s, ret |-> FALSE]
    ELSE makeMove(s, sourceSquare, targetSquare)

\* mutant of handleUndoMove: the replay check is missing
handleUndoMove_noReplayCheck(s) ==
    IF Len(s.moveHistory) > 0
    THEN LET popped == SubSeq(s.moveHistory, 1, Len(s.moveHistory) - 1)
             newHistory == IF s.playingAgainstEngine /\ Len(popped) > 0
                           THEN SubSeq(popped, 1, Len(popped) - 1)
                           ELSE popped
             lastPosition == IF Len(newHistory) > 0
                             THEN newHistory[Len(newHistory)]
                             ELSE StartFen
         IN  persistEffect(s,
               [s EXCEPT !.game = ChessOf(lastPosition),
                         !.moveHistory = newHistory,
                         !.currentMoveIndex =
                             @ - (IF s.playingAgainstEngine THEN 2 ELSE 1)])
    ELSE s

handleUndoMove(s) ==
    IF s.isPgnMode THEN s
    ELSE IF Len(s.moveHistory) > 0
    THEN LET popped == SubSeq(s.moveHistory, 1, Len(s.moveHistory) - 1)
             newHistory == IF s.playingAgainstEngine /\ Len(popped) > 0
                           THEN SubSeq(popped, 1, Len(popped) - 1)
                           ELSE popped
             lastPosition == IF Len(newHistory) > 0
                             THEN newHistory[Len(newHistory)]
                             ELSE StartFen
         IN  persistEffect(s,
               [s EXCEPT !.game = ChessOf(lastPosition),
                         !.moveHistory = newHistory,
                         !.currentMoveIndex =
                             @ - (IF s.playingAgainstEngine THEN 2 ELSE 1)])
    ELSE s

\* mutant of handleNewGame: outstanding requests are dropped
handleNewGame_cancelsRequests(s) ==
    [s EXCEPT !.game = NewChess, !.playingAgainstEngine = FALSE,
              !.chatMode = FALSE, !.moveHistory = <<>>,
              !.fullMoveHistory = <<>>, !.chatHistory = <<>>,
              !.boardOrientation = "white", !.playerColor = "white",
              !.currentMoveIndex = -1, !.isPgnMode = FALSE,
              !.originalPgn = "", !.localStorage = EmptyStorage,
              !.pending = EmptyBag]

\* mutant of handleNewGame: the stored items are not removed
handleNewGame_keepsStorage(s) ==
    [s EXCEPT !.game = NewChess, !.playingAgainstEngine = FALSE,
              !.chatMode = FALSE, !.moveHistory = <<>>,
              !.fullMoveHistory = <<>>, !.chatHistory = <<>>,
              !.boardOrientation = "white", !.playerColor = "white",
              !.currentMoveIndex = -1, !.isPgnMode = FALSE,
              !.originalPgn = ""]

\* mutant of handleNewGame: the notation history is not reset
handleNewGame_keepsNotation(s) ==
    [s EXCEPT !.game = NewChess, !.playingAgainstEngine = FALSE,
              !.chatMode = FALSE, !.moveHistory = <<>>,
              !.chatHistory = <<>>,
              !.boardOrientation = "white", !.playerColor = "white",
              !.currentMoveIndex = -1, !.isPgnMode = FALSE,
              !.originalPgn = "", !.localStorage = EmptyStorage]

handleNewGame(s) ==
    [s EXCEPT !.game = NewChess, !.playingAgainstEngine = FALSE,
              !.chatMode = FALSE, !.moveHistory = <<>>,
              !.fullMoveHistory = <<>>, !.chatHistory = <<>>,
              !.boardOrientation = "white", !.playerColor = "white",
              !.currentMoveIndex = -1, !.isPgnMode = FALSE,
              !.originalPgn = "", !.localStorage = EmptyStorage]

handleStopPgnAnalysis(s) ==
    handleNewGame([s EXCEPT !.isPgnMode = FALSE, !.originalPgn = "",
                            !.localStorage = EmptyStorage])

handlePlayEngine(s) ==
    [s EXCEPT !.showColorModal = TRUE, !.chatMode = FALSE]

handleColorSelect(s, color) ==
    LET s1 == [s EXCEPT !.playerColor = color, !.boardOrientation = color,
                        !.playingAgainstEngine = TRUE, !.showColorModal = FALSE,
                        !.game = NewChess, !.moveHistory = <<>>,
                        !.chatHistory = <<>>, !.currentMoveIndex = -1]
    IN  persistEffect(s, IF color = "black" THEN makeEngineMove(s1, NewChess) ELSE s1)

handleChatMode(s) ==
    persistEffect(s,
      [s EXCEPT !.chatMode = ~@, !.playingAgainstEngine = FALSE,
                !.game = NewChess, !.moveHistory = <<>>,
                !.chatHistory = <<>>, !.currentMoveIndex = -1])

\* mutant of handleImportPGN: only the final position is recorded
handleImportPGN_finalOnly(s, pgnText) ==
    LET loaded == loadPgn(pgnText)
        newGame == loaded.chess
    IN  IF ~loaded.ok THEN [st |-> s, ret |-> FALSE]
        ELSE [st |-> persistEffect(s,
                [s EXCEPT !.game = newGame,
                          !.originalPgn = pgnText,
                          !.fullMoveHistory = newGame.hist,
                          !.moveHistory = <<newGame.fen>>,
                          !.currentMoveIndex = Len(newGame.hist) - 1,
                          !.isPgnMode = TRUE,
                          !.localStorage =
                              [chessPgn |-> pgnText,
                               chessMoveIndex |-> toString(Len(newGame.hist) - 1)]]),
              ret |-> TRUE]

\* mutant of handleImportPGN: the session is updated before the text is
\* known to be a game, so a rejected text leaves its traces
handleImportPGN_setsBeforeParse(s, pgnText) ==
    LET loaded == loadPgn(pgnText)
        newGame == loaded.chess
    IN  IF ~loaded.ok
        THEN [st |-> persistEffect(s, [s EXCEPT !.game = newGame,
                                                !.originalPgn = pgnText]),
              ret |-> FALSE]
        ELSE [st |-> persistEffect(s,
                [s EXCEPT !.game = newGame,
                          !.originalPgn = pgnText,
                          !.fullMoveHistory = newGame.hist,
                          !.moveHistory = positionsOf(newGame.hist),
                          !.currentMoveIndex = Len(newGame.hist) - 1,
                          !.isPgnMode = TRUE,
                          !.localStorage =
                              [chessPgn |-> pgnText,
                               chessMoveIndex |-> toString(Len(newGame.hist) - 1)]]),
              ret |-> TRUE]

\* reader.onload of handleImportPGN; ret is FALSE when the alert is raised
handleImportPGN(s, pgnText) ==
    LET loaded == loadPgn(pgnText)
        newGame == loaded.chess
    IN  IF ~loaded.ok THEN [st |-> s, ret |-> FALSE]
        ELSE [st |-> persistEffect(s,
                [s EXCEPT !.game = newGame,
                          !.originalPgn = pgnText,
                          !.fullMoveHistory = newGame.hist,
                          !.moveHistory = positionsOf(newGame.hist),
                          !.currentMoveIndex = Len(newGame.hist) - 1,
                          !.isPgnMode = TRUE,
                          !.localStorage =
                              [chessPgn |-> pgnText,
                               chessMoveIndex |-> toString(Len(newGame.hist) - 1)]]),
              ret |-> TRUE]

\* mutant of navigateMove: an index outside the log is clamped to the nearest
\* valid one and applied
navigateMove_clamps(s, index) ==
    LET i == IF index < -1 THEN -1
             ELSE IF index >= Len(s.moveHistory) THEN Len(s.moveHistory) - 1
             ELSE index
        s1 == [s EXCEPT !.currentMoveIndex = i,
                        !.game = IF i = -1 THEN NewChess
                                 ELSE ChessOf(s.moveHistory[i + 1])]
        s2 == IF s.isPgnMode
              THEN [s1 EXCEPT !.localStorage.chessMoveIndex = toString(i)]
              ELSE s1
    IN  persistEffect(s, s2)

\* mutant of navigateMove: the cursor moves but the board is not reloaded
navigateMove_keepsPosition(s, index) ==
    IF index >= -1 /\ index < Len(s.moveHistory)
    THEN LET s1 == [s EXCEPT !.currentMoveIndex = index]
             s2 == IF s.isPgnMode
                   THEN [s1 EXCEPT !.localStorage.chessMoveIndex = toString(index)]
                   ELSE s1
         IN  persistEffect(s, s2)
    ELSE s

navigateMove(s, index) ==
    IF index >= -1 /\ index < Len(s.moveHistory)
    THEN LET s1 == [s EXCEPT !.currentMoveIndex = index,
                             !.game = IF index = -1 THEN NewChess
                                      ELSE ChessOf(s.moveHistory[index + 1])]
             s2 == IF s.isPgnMode
                   THEN [s1 EXCEPT !.localStorage.chessMoveIndex = toString(index)]
                   ELSE s1
         IN  persistEffect(s, s2)
    ELSE s

handlePrevMove(s) == navigateMove(s, s.currentMoveIndex - 1)
\* mutant of handleNextMove: steps back, as handlePrevMove does
handleNextMove_asPrev(s) == navigateMove(s, s.currentMoveIndex - 1)
handleNextMove(s) == navigateMove(s, s.currentMoveIndex + 1)

\* mutant of restoreSavedPgn: a stored PGN that cannot be loaded is left in
\* the storage
restoreSavedPgn_keepsBadItems(storage) ==
    LET s0 == InitialState(storage)
        savedPgn == storage.chessPgn
        savedMoveIndex == storage.chessMoveIndex
    IN  IF savedPgn # NoItem /\ savedPgn # ""
        THEN LET loaded == loadPgn(savedPgn)
                 newGame == loaded.chess
             IN  IF loaded.ok
                 THEN persistEffect(s0,
                        [s0 EXCEPT !.game = newGame,
                                   !.originalPgn = savedPgn,
                                   !.fullMoveHistory = newGame.hist,
                                   !.moveHistory = positionsOf(newGame.hist),
                                   !.currentMoveIndex =
                                       IF savedMoveIndex # NoItem /\ savedMoveIndex # ""
                                       THEN parseInt(savedMoveIndex) ELSE -1,
                                   !.isPgnMode = TRUE])
                 ELSE s0
        ELSE s0

\* mount: useState initial values, then the restore effect over the storage
\* the previous session left, then the persist effect
restoreSavedPgn(storage) ==
    LET s0 == InitialState(storage)
        savedPgn == storage.chessPgn
        savedMoveIndex == storage.chessMoveIndex
    IN  IF savedPgn # NoItem /\ savedPgn # ""
        THEN LET loaded == loadPgn(savedPgn)
                 newGame == loaded.chess
             IN  IF loaded.ok
                 THEN persistEffect(s0,
                        [s0 EXCEPT !.game = newGame,
                                   !.originalPgn = savedPgn,
                                   !.fullMoveHistory = newGame.hist,
                                   !.moveHistory = positionsOf(newGame.hist),
                                   !.currentMoveIndex =
                                       IF savedMoveIndex # NoItem /\ savedMoveIndex # ""
                                       THEN parseInt(savedMoveIndex) ELSE -1,
                                   !.isPgnMode = TRUE])
                 ELSE [s0 EXCEPT !.localStorage = EmptyStorage]
        ELSE s0

\* ---------------------------------------------------------------- actions
Commit(s) ==
    /\ game' = s.game
    /\ moveHistory' = s.moveHistory
    /\ fullMoveHistory' = s.fullMoveHistory
    /\ currentMoveIndex' = s.currentMoveIndex
    /\ playingAgainstEngine' = s.playingAgainstEngine
    /\ chatMode' = s.chatMode
    /\ isPgnMode' = s.isPgnMode
    /\ originalPgn' = s.originalPgn
    /\ playerColor' = s.playerColor
    /\ boardOrientation' = s.boardOrientation
    /\ showColorModal' = s.showColorModal
    /\ chatHistory' = s.chatHistory
    /\ engineThinking' = s.engineThinking
    /\ localStorage' = s.localStorage
    /\ pending' = s.pending
    /\ engine' = s.engine

\* the state explored stays within the bounds: a step may not grow the move
\* log, the transcript or the outstanding requests past them
WithinBounds(s, t) ==
    /\ Len(t.moveHistory) > Len(s.moveHistory) => Len(t.moveHistory) <= MaxLog
    /\ Len(t.chatHistory) > Len(s.chatHistory) => Len(t.chatHistory) <= MaxChat
    /\ BagCardinality(t.pending) > BagCardinality(s.pending)
         => BagCardinality(t.pending) <= MaxPending
    /\ t.currentMoveIndex >= -CursorFloor

Did(op, ret) == lastOp' = [op |-> op, ret |-> ret]

\* the squares a piece may be dragged between: the moves of the fragment and
\* one drop that is never a move
Drops == {<<Origin(m), Target(m)>> : m \in MoveIds} \cup {<<"f2", "f5">>}

\* the controls behind the colour selection overlay cannot be reached
ControlsReachable == ~showColorModal

Drop ==
    /\ ControlsReachable
    /\ \E d \in Drops :
         LET r == onDrop(Cur, d[1], d[2])
         IN  /\ WithinBounds(Cur, r.st)
             /\ Commit(r.st)
             /\ Did("onDrop", r.ret)

\* an outstanding request completes; requests complete in any order
EngineMoveDone ==
    \E req \in BagToSet(pending) :
      /\ req.kind = "engine"
      /\ \E eval \in EvalResults :
           LET rest == [Cur EXCEPT !.pending = @ (-) SetToBag({req})]
               t == engineMoveDone(rest, req.fen, eval)
           IN  /\ WithinBounds(Cur, t)
               /\ Commit(t)
               /\ Did("engineMoveDone", getBestMove(req.fen, eval) # Null)

AnalysisDone ==
    \E req \in BagToSet(pending) :
      /\ req.kind = "analysis"
      /\ \E evalOut \in EvalOutcomes, openOut \in OpeningOutcomes,
            narrOut \in NarrativeOutcomes :
           LET rest == [Cur EXCEPT !.pending = @ (-) SetToBag({req})]
               t == analysisDone(rest, analysisReply(evalOut, openOut, narrOut))
           IN  /\ WithinBounds(Cur, t)
               /\ Commit(t)
               /\ Did("analysisDone", TRUE)

\* a question is typed in the chat box, shown in chat mode, and sent
ChatSubmit ==
    /\ ControlsReachable
    /\ chatMode
    /\ \E chatInput \in ChatInputs :
         LET t == handleChatSubmit(Cur, chatInput)
         IN  /\ WithinBounds(Cur, t)
             /\ Commit(t)
             /\ Did("handleChatSubmit", TRUE)

\* the API key field is filled in (or left as it is) and submitted
ApiKeySubmit ==
    /\ ControlsReachable
    /\ \E apiKey \in Keys, sdkOk \in SdkOutcomes :
         /\ Commit(handleApiKeySubmit(Cur, apiKey, sdkOk))
         /\ Did("handleApiKeySubmit", TRUE)

\* the Undo button is disabled while the log is empty or a replay is shown
UndoMove ==
    /\ ControlsReachable
    /\ ~(Len(moveHistory) = 0 \/ isPgnMode)
    /\ WithinBounds(Cur, handleUndoMove(Cur))
    /\ Commit(handleUndoMove(Cur))
    /\ Did("handleUndoMove", TRUE)

\* the New Game button, and the engine button while playing the engine
NewGame ==
    /\ ControlsReachable
    /\ Commit(handleNewGame(Cur))
    /\ Did("handleNewGame", TRUE)

StopPgnAnalysis ==
    /\ ControlsReachable
    /\ isPgnMode
    /\ Commit(handleStopPgnAnalysis(Cur))
    /\ Did("handleStopPgnAnalysis", TRUE)

PlayEngine ==
    /\ ControlsReachable
    /\ ~playingAgainstEngine
    /\ ~(chatMode \/ isPgnMode)
    /\ Commit(handlePlayEngine(Cur))
    /\ Did("handlePlayEngine", TRUE)

ColorSelect ==
    /\ showColorModal
    /\ \E color \in {"white", "black"} :
         /\ WithinBounds(Cur, handleColorSelect(Cur, color))
         /\ Commit(handleColorSelect(Cur, color))
         /\ Did("handleColorSelect", TRUE)

CancelColorSelect ==
    /\ showColorModal
    /\ Commit([Cur EXCEPT !.showColorModal = FALSE])
    /\ Did("cancelColorSelect", TRUE)

ChatMode ==
    /\ ControlsReachable
    /\ ~(playingAgainstEngine \/ isPgnMode)
    /\ Commit(handleChatMode(Cur))
    /\ Did("handleChatMode", TRUE)

\* reader.onload of a file chosen in the import control. The file is chosen
\* while the controls can be reached, and the read ends some events later:
\* the callback runs whatever is on screen by then, the colour dialog
\* included
ImportPGN ==
    /\ \E pgnText \in PgnTexts :
         LET r == handleImportPGN(Cur, pgnText)
         IN  /\ Commit(r.st)
             /\ Did("handleImportPGN", r.ret)

\* the Start button and one button per entry of fullMoveHistory, shown
\* while the move log is not empty
NavigateMove ==
    /\ ControlsReachable
    /\ Len(moveHistory) > 0
    /\ \E index \in -1..(Len(fullMoveHistory) - 1) :
         /\ Commit(navigateMove(Cur, index))
         /\ Did("navigateMove", index >= -1 /\ index < Len(moveHistory))

PrevMove ==
    /\ ControlsReachable
    /\ Len(moveHistory) > 0
    /\ ~(currentMoveIndex <= -1)
    /\ Commit(handlePrevMove(Cur))
    /\ Did("handlePrevMove", currentMoveIndex - 1 < Len(moveHistory))

NextMove ==
    /\ ControlsReachable
    /\ Len(moveHistory) > 0
    /\ ~(currentMoveIndex >= Len(moveHistory) - 1)
    /\ Commit(handleNextMove(Cur))
    /\ Did("handleNextMove", currentMoveIndex + 1 >= -1)

\* what the mount is recorded as: a plain mount when no PGN is stored, else
\* the restore, with whether the stored PGN was loaded
mountOp(storage) ==
    IF storage.chessPgn # NoItem /\ storage.chessPgn # ""
    THEN [op |-> "restoreSavedPgn", ret |-> loadPgn(storage.chessPgn).ok]
    ELSE [op |-> "mount", ret |-> TRUE]

\* the page is loaded again: outstanding requests are gone with the old page
Reload ==
    /\ Commit(restoreSavedPgn(localStorage))
    /\ lastOp' = mountOp(localStorage)

\* first load, with nothing in the storage
Init ==
    /\ game = NewChess
    /\ moveHistory = <<>>
    /\ fullMoveHistory = <<>>
    /\ currentMoveIndex = -1
    /\ playingAgainstEngine = FALSE
    /\ chatMode = FALSE
    /\ isPgnMode = FALSE
    /\ originalPgn = ""
    /\ playerColor = "white"
    /\ boardOrientation = "white"
    /\ showColorModal = FALSE
    /\ chatHistory = <<>>
    /\ engineThinking = FALSE
    /\ localStorage = EmptyStorage
    /\ pending = EmptyBag
    /\ engine = NewChessEngine
    /\ lastOp = [op |-> "mount", ret |-> TRUE]

Next ==
    \/ Drop
    \/ EngineMoveDone
    \/ AnalysisDone
    \/ UndoMove
    \/ NewGame
    \/ StopPgnAnalysis
    \/ PlayEngine
    \/ ColorSelect
    \/ CancelColorSelect
    \/ ChatMode
    \/ ImportPGN
    \/ NavigateMove
    \/ PrevMove
    \/ NextMove
    \/ Reload
    \/ ApiKeySubmit
    \/ ChatSubmit

Spec == Init /\ [][Next]_vars

\* What the storage may hold when the page is loaded: nothing, or a PGN item
\* (of a game, or text that is not one) with or without an index item, the
\* index being any integer in decimal.
StoredIndexes == {NoItem, "-2", "0", "3", "5"}
StoredSessions ==
    {EmptyStorage} \cup
    {[chessPgn |-> p, chessMoveIndex |-> i] : p \in PgnTexts, i \in StoredIndexes}

\* the first render after the mount effects, over the storage found
InitRestore ==
    \E storage \in StoredSessions :
      LET s == restoreSavedPgn(storage)
      IN  /\ game = s.game
          /\ moveHistory = s.moveHistory
          /\ fullMoveHistory = s.fullMoveHistory
          /\ currentMoveIndex = s.currentMoveIndex
          /\ playingAgainstEngine = s.playingAgainstEngine
          /\ chatMode = s.chatMode
          /\ isPgnMode = s.isPgnMode
          /\ originalPgn = s.originalPgn
          /\ playerColor = s.playerColor
          /\ boardOrientation = s.boardOrientation
          /\ showColorModal = s.showColorModal
          /\ chatHistory = s.chatHistory
          /\ engineThinking = s.engineThinking
          /\ localStorage = s.localStorage
          /\ pending = s.pending
          /\ engine = s.engine
          /\ lastOp = mountOp(storage)

\* the session of a page loaded over any stored session
SpecRestore == InitRestore /\ [][Next]_vars

\* ----------------------------------------------------------------- claims
\* every component of the session state (all variables but the record of
\* the last operation)
sessionVars == <<game, moveHistory, fullMoveHistory, currentMoveIndex,
                 playingAgainstEngine, chatMode, isPgnMode, originalPgn,
                 playerColor, boardOrientation, showColorModal,
                 chatHistory, engineThinking, localStorage, pending, engine>>

\* C1: in every reachable state the replay cursor lies in
\* [-1, len(Move Log) - 1].
C1_CursorInRange ==
    -1 <= currentMoveIndex /\ currentMoveIndex <= Len(moveHistory) - 1

\* C2: in every reachable state the displayed position is Move Log[cursor]
\* when cursor >= 0 and the starting position when cursor = -1.
C2_PositionFollowsCursor ==
    /\ currentMoveIndex = -1 => game.fen = StartFen
    /\ currentMoveIndex >= 0 =>
         /\ currentMoveIndex < Len(moveHistory)
         /\ game.fen = moveHistory[currentMoveIndex + 1]

\* C3: at most one of the mode flags playingAgainstEngine, chatMode and
\* isPgnMode is set.
C3_AtMostOneMode ==
    /\ ~(playingAgainstEngine /\ chatMode)
    /\ ~(playingAgainstEngine /\ isPgnMode)
    /\ ~(chatMode /\ isPgnMode)

\* C4: in Live mode an accepted move followed at once by an undo restores
\* Move Log, Full Move Notation History and cursor to their prior values.
C4_SubmitUndoRestores ==
    \A d \in Drops :
      LET r == onDrop(Cur, d[1], d[2])
          u == handleUndoMove(r.st)
      IN  (Mode(Cur) = "Live" /\ r.ret) =>
            /\ u.moveHistory = moveHistory
            /\ u.fullMoveHistory = fullMoveHistory
            /\ u.currentMoveIndex = currentMoveIndex

\* C5: while a replay is shown a dropped move is rejected (onDrop returns
\* false) and no component of the session state changes.
C5_ReplayRejectsMoves ==
    [][(isPgnMode /\ lastOp'.op = "onDrop")
         => (lastOp'.ret = FALSE /\ UNCHANGED sessionVars)]_vars

\* C5 witness: a replay is shown at a position where f3 is a legal move, and
\* the drop just made was rejected.
C5_Witness ==
    /\ isPgnMode
    /\ lastOp = [op |-> "onDrop", ret |-> FALSE]
    /\ legal(game.fen, "f3")

\* C6: the Full Move Notation History is aligned with the Move Log: same
\* length, and entry i is the move that produced Move Log entry i.
C6_NotationAligned ==
    /\ Len(fullMoveHistory) = Len(moveHistory)
    /\ \A i \in 1..Len(moveHistory) :
         moveHistory[i] =
           (IF i = 1 THEN StartFen ELSE moveHistory[i - 1])
             \cup {parseSan(fullMoveHistory[i])}

\* C7: every accepted move appends one position to the Move Log, appends
\* its SAN to the Full Move Notation History keeping the earlier entries,
\* and advances the cursor by one.
C7_SubmitAppends ==
    [][(lastOp'.op = "onDrop" /\ lastOp'.ret)
         => /\ Len(moveHistory') = Len(moveHistory) + 1
            /\ SubSeq(moveHistory', 1, Len(moveHistory)) = moveHistory
            /\ Len(fullMoveHistory') = Len(fullMoveHistory) + 1
            /\ SubSeq(fullMoveHistory', 1, Len(fullMoveHistory)) = fullMoveHistory
            /\ currentMoveIndex' = currentMoveIndex + 1]_vars

\* the k plies a movetext lists, and the position after the first i of them
pliesOf(text) == [i \in 1..Len(movetext(text)) |-> parseSan(movetext(text)[i])]
positionAfter(text, i) == {pliesOf(text)[j] : j \in 1..i}

\* C8: a successful import of a k-ply game replaces the Move Log with the k
\* positions of the game in order, sets the notation history to its k
\* moves, the cursor to k-1 and the mode to PgnReplay, keeps the PGN text
\* and writes the persisted resume state.
C8_ImportReplacesLog ==
    [][(lastOp'.op = "handleImportPGN" /\ lastOp'.ret)
         => \E text \in PgnTexts :
              LET k == Len(movetext(text))
              IN  /\ moveHistory' = [i \in 1..k |-> positionAfter(text, i)]
                  /\ Len(fullMoveHistory') = k
                  /\ \A i \in 1..k : parseSan(fullMoveHistory'[i]) = pliesOf(text)[i]
                  /\ currentMoveIndex' = k - 1
                  /\ isPgnMode'
                  /\ originalPgn' = text
                  /\ localStorage'.chessPgn = text
                  /\ parseInt(localStorage'.chessMoveIndex) = k - 1]_vars

\* C8 witness: the four-ply game has just been imported over a session that
\* was playing the engine.
C8_Witness ==
    /\ lastOp = [op |-> "handleImportPGN", ret |-> TRUE]
    /\ Len(moveHistory) = 4
    /\ currentMoveIndex = 3
    /\ playingAgainstEngine

\* the positions shown by NavigateTo(cursor+1) repeated from state s until
\* the cursor is at the end of the log (at most n steps)
RECURSIVE walk(_, _, _)
walk(s, shown, n) ==
    IF n = 0 \/ s.currentMoveIndex >= Len(s.moveHistory) - 1
    THEN [st |-> s, shown |-> shown]
    ELSE LET next == handleNextMove(s)
         IN  walk(next, Append(shown, next.game.fen), n - 1)

\* C9: after an import, NavigateTo(-1) and then NavigateTo(cursor+1) to the
\* end shows exactly the positions of the imported Move Log, in order, and
\* leaves the Move Log unchanged.
C9_WalkReproducesLog ==
    (lastOp.op = "handleImportPGN" /\ lastOp.ret) =>
      LET start == navigateMove(Cur, -1)
          w == walk(start, <<>>, Len(moveHistory))
      IN  /\ start.game.fen = StartFen
          /\ w.shown = moveHistory
          /\ w.st.moveHistory = moveHistory
          /\ w.st.currentMoveIndex = Len(moveHistory) - 1

\* C9 witness: the four-ply game has just been imported in Live mode, so the
\* walk has four positions to show.
C9_Witness ==
    /\ lastOp = [op |-> "handleImportPGN", ret |-> TRUE]
    /\ Len(moveHistory) = 4
    /\ ~playingAgainstEngine /\ ~chatMode

\* C10: NavigateTo(index) within range sets the cursor to index and the
\* displayed position to Move Log[index] (the start for -1), leaves the
\* Move Log unchanged and, exactly in replay mode, persists index.
C10_NavigateSetsCursor ==
    \A index \in -1..(Len(moveHistory) - 1) :
      LET t == navigateMove(Cur, index)
      IN  /\ t.currentMoveIndex = index
          /\ t.game.fen = (IF index = -1 THEN StartFen ELSE moveHistory[index + 1])
          /\ t.moveHistory = moveHistory
          /\ isPgnMode => parseInt(t.localStorage.chessMoveIndex) = index
          /\ ~isPgnMode => t.localStorage = localStorage

\* C10 witness: in replay mode the cursor has just been moved to the second
\* ply of the four-ply game and persisted.
C10_Witness ==
    /\ lastOp = [op |-> "navigateMove", ret |-> TRUE]
    /\ isPgnMode
    /\ Len(moveHistory) = 4
    /\ currentMoveIndex = 1
    /\ game.fen = moveHistory[2]
    /\ localStorage.chessMoveIndex = "1"

\* C11: NavigateTo(index) with index < -1 or index >= len(Move Log) changes
\* nothing: cursor, displayed position, Move Log, persisted resume state and
\* every other component of the session are as before.
C11_NavigateOutOfRangeNoOp ==
    \A index \in IntRange :
      (index < -1 \/ index >= Len(moveHistory)) => navigateMove(Cur, index) = Cur

\* C11 witness: a session restored with a cursor past the end of the log, in
\* which the previous-move control has just asked for an index that is still
\* past the end.
C11_Witness ==
    /\ lastOp = [op |-> "handlePrevMove", ret |-> FALSE]
    /\ isPgnMode
    /\ currentMoveIndex - 1 >= Len(moveHistory)

\* C12: UndoLastMove changes nothing when the Move Log is empty or the mode
\* is PgnReplay: Move Log, displayed position, cursor and every other
\* component of the session are as before.
C12_UndoNoOp ==
    (Len(moveHistory) = 0 \/ Mode(Cur) = "PgnReplay") => handleUndoMove(Cur) = Cur

\* C12 witness: a replay of the four-ply game is shown with the cursor on
\* its last ply, where an undo in any other mode would shorten the log.
C12_Witness ==
    /\ Mode(Cur) = "PgnReplay"
    /\ Len(moveHistory) = 4
    /\ currentMoveIndex = 3
    /\ game.fen = moveHistory[4]

\* the session once the engine request made for position fen has completed
\* with the given evaluation
engineReply(s, fen, eval) ==
    engineMoveDone([s EXCEPT !.pending = @ (-) SetToBag({[kind |-> "engine", fen |-> fen]})],
                   fen, eval)

\* C13: in EngineOpponent mode, a human move answered by the engine and then
\* one UndoLastMove return Move Log, displayed position and cursor to the
\* values they had before the human move.
C13_UndoRemovesPair ==
    (Mode(Cur) = "EngineOpponent" /\ pending = EmptyBag) =>
      \A d \in Drops : \A eval \in EvalResults :
        LET r == onDrop(Cur, d[1], d[2])
            fen == r.st.game.fen
            e == engineReply(r.st, fen, eval)
            u == handleUndoMove(e)
        IN  (r.ret /\ getBestMove(fen, eval) # Null) =>
              /\ u.moveHistory = moveHistory
              /\ u.game.fen = game.fen
              /\ u.currentMoveIndex = currentMoveIndex

\* C14: an engine move that is applied appends one position to the Move
\* Log, appends its move to the Full Move Notation History and advances the
\* cursor by one, as an accepted human move does.
C14_EngineMoveAppends ==
    [][(lastOp'.op = "engineMoveDone" /\ lastOp'.ret)
         => /\ Len(moveHistory') = Len(moveHistory) + 1
            /\ Len(fullMoveHistory') = Len(fullMoveHistory) + 1
            /\ currentMoveIndex' = currentMoveIndex + 1]_vars

\* C15: when an outstanding engine request yields no legal suggestion (no
\* evaluation, a failed request, or a move that is not legal), its
\* completion leaves displayed position, Move Log and cursor as they are
\* and the engine-thinking flag is false.
C15_NoSuggestionNoMove ==
    \A req \in BagToSet(pending) : \A eval \in EvalResults :
      (req.kind = "engine" /\ getBestMove(req.fen, eval) = Null) =>
        LET t == engineReply(Cur, req.fen, eval)
        IN  /\ t.game = game
            /\ t.moveHistory = moveHistory
            /\ t.currentMoveIndex = currentMoveIndex
            /\ t.fullMoveHistory = fullMoveHistory
            /\ t.engineThinking = FALSE

\* C15 witness: while playing the engine, a request has just completed
\* without a suggestion; the flag is down and the log is as the human move
\* left it.
C15_Witness ==
    /\ lastOp = [op |-> "engineMoveDone", ret |-> FALSE]
    /\ Mode(Cur) = "EngineOpponent"
    /\ ~engineThinking
    /\ Len(moveHistory) = 1
    /\ pending = EmptyBag

\* every session reached from s by completions of outstanding engine
\* requests alone (at most n of them), no human input in between, accepts a
\* dropped move only when the Move Log has exactly one entry
RECURSIVE firstInputAfterOneMove(_, _)
firstInputAfterOneMove(s, n) ==
    /\ \A d \in Drops : onDrop(s, d[1], d[2]).ret => Len(s.moveHistory) = 1
    /\ n > 0 =>
         \A req \in BagToSet(s.pending) : \A eval \in EvalResults :
           req.kind = "engine" =>
             firstInputAfterOneMove(engineReply(s, req.fen, eval), n - 1)

\* C16: choosing black requests an engine move for the starting position at
\* once, and until a human move is accepted the Move Log has exactly one
\* entry whenever one would be accepted (none is while the log is empty;
\* one is once the request completed with a legal suggestion); choosing
\* white requests no engine move.
C16_BlackEngineMovesFirst ==
    showColorModal =>
      LET w == handleColorSelect(Cur, "white")
          b == handleColorSelect(Cur, "black")
          first == [kind |-> "engine", fen |-> StartFen]
      IN  /\ w.pending = pending
          /\ b.pending = pending (+) SetToBag({first})
          /\ b.moveHistory = <<>>
          /\ \A d \in Drops : ~onDrop(b, d[1], d[2]).ret
          /\ \A eval \in EvalResults :
                getBestMove(StartFen, eval) # Null =>
                  LET e == engineReply(b, StartFen, eval)
                  IN  /\ Len(e.moveHistory) = 1
                      /\ \E d \in Drops : onDrop(e, d[1], d[2]).ret
          /\ firstInputAfterOneMove(b, BagCardinality(b.pending))

\* C17: an import of text that is not a game changes nothing: displayed
\* position, Move Log, notation history, cursor, mode flags, original PGN,
\* persisted resume state and every other component are as before, and the
\* handler reports the invalid file.
C17_BadImportNoMutation ==
    \A text \in PgnTexts :
      ~loadPgn(text).ok =>
        /\ handleImportPGN(Cur, text).st = Cur
        /\ handleImportPGN(Cur, text).ret = FALSE

\* C17 witness: text that is not a game has just been offered while a replay
\* of another game was shown part-way, and was turned down.
C17_Witness ==
    /\ lastOp = [op |-> "handleImportPGN", ret |-> FALSE]
    /\ isPgnMode
    /\ Len(moveHistory) = 4
    /\ currentMoveIndex = 1
    /\ localStorage = [chessPgn |-> originalPgn, chessMoveIndex |-> "1"]

\* index i brought into the valid cursor range of a log of n entries
clampIndex(i, n) == IF i < -1 THEN -1 ELSE IF i > n - 1 THEN n - 1 ELSE i

\* C18: a session restored from a stored PGN and index is what an import of
\* that PGN gives (Move Log, notation history, mode, original PGN), except
\* that the cursor is the stored index clamped to [-1, len(Move Log) - 1],
\* and -1 when no index is stored.
C18_RestoreClampsCursor ==
    LET saved == localStorage
    IN  (saved.chessPgn \notin {NoItem, ""} /\ loadPgn(saved.chessPgn).ok) =>
          LET r == restoreSavedPgn(saved)
              imp == handleImportPGN(InitialState(saved), saved.chessPgn).st
              wanted == IF saved.chessMoveIndex \in {NoItem, ""} THEN -1
                        ELSE clampIndex(parseInt(saved.chessMoveIndex),
                                        Len(imp.moveHistory))
          IN  /\ r.moveHistory = imp.moveHistory
              /\ r.fullMoveHistory = imp.fullMoveHistory
              /\ r.isPgnMode = imp.isPgnMode
              /\ r.originalPgn = imp.originalPgn
              /\ r.currentMoveIndex = wanted

\* C19: when the stored PGN cannot be loaded at session start, both stored
\* items are deleted and the session is the initial Live one: empty Move
\* Log and notation history, cursor -1, no mode flag set, nothing of the
\* stored session applied.
C19_BadStoredPgnDiscarded ==
    (lastOp.op = "restoreSavedPgn" /\ ~lastOp.ret) => Cur = InitialState(EmptyStorage)

\* C19 witness: the page has just been loaded over a stored PGN that is not
\* a game; the storage is empty and the session is Live.
C19_Witness ==
    /\ lastOp = [op |-> "restoreSavedPgn", ret |-> FALSE]
    /\ localStorage = EmptyStorage
    /\ Mode(Cur) = "Live"
    /\ moveHistory = <<>>
    /\ currentMoveIndex = -1

\* C20: whenever a replay is shown with a non-empty original PGN, the
\* persisted resume state is the pair (original PGN, cursor): both stored
\* items are present and hold exactly them, after an import, a restore and
\* every change of the cursor.
C20_PersistedFollowsReplay ==
    (isPgnMode /\ originalPgn # "") =>
      localStorage = [chessPgn |-> originalPgn,
                      chessMoveIndex |-> toString(currentMoveIndex)]

\* C20 witness: in a replay of the four-ply game the cursor has just been
\* stepped back from the last ply, and the stored index has followed it.
C20_Witness ==
    /\ lastOp = [op |-> "handlePrevMove", ret |-> TRUE]
    /\ isPgnMode
    /\ originalPgn = "1. f3 e5 2. g4 Qh4#"
    /\ currentMoveIndex = 2
    /\ localStorage = [chessPgn |-> originalPgn, chessMoveIndex |-> "2"]

C22_NewGameResets ==
    LET t == handleNewGame(Cur)
    IN  /\ t.moveHistory = <<>>
        /\ t.fullMoveHistory = <<>>
        /\ t.chatHistory = <<>>
        /\ t.currentMoveIndex = -1
        /\ t.game.fen = StartFen
        /\ ~t.playingAgainstEngine /\ ~t.chatMode /\ ~t.isPgnMode
        /\ t.playerColor = "white"
        /\ t.boardOrientation = "white"
        /\ t.originalPgn = ""
        /\ t.localStorage = EmptyStorage

\* C22 witness: New Game has just been pressed while an engine request of
\* the game it ended was outstanding.
C22_Witness ==
    /\ lastOp = [op |-> "handleNewGame", ret |-> TRUE]
    /\ pending # EmptyBag
    /\ moveHistory = <<>>
    /\ Mode(Cur) = "Live"

\* the side the human plays, as chess.turn() names it
humanSide(s) == IF s.playerColor = "white" THEN "w" ELSE "b"

\* C26: in EngineOpponent mode a move submitted while the side to move is
\* not the human's is rejected and changes nothing (position, Move Log,
\* notation history and cursor included); a move the rules engine rejects
\* as illegal is rejected and changes nothing in any mode.
C26_RejectedMoveNoChange ==
    \A d \in Drops :
      LET r == onDrop(Cur, d[1], d[2])
          illegalMove == ~\E m \in MoveIds :
                            legal(game.fen, m) /\ Origin(m) = d[1] /\ Target(m) = d[2]
      IN  /\ (Mode(Cur) = "EngineOpponent" /\ turn(game.fen) # humanSide(Cur)) =>
                ~r.ret /\ r.st = Cur
          /\ illegalMove => ~r.ret /\ r.st = Cur

\* C26 witness: the human plays black, the engine has not answered yet and
\* a drop has just been rejected.
C26_Witness ==
    /\ lastOp = [op |-> "onDrop", ret |-> FALSE]
    /\ Mode(Cur) = "EngineOpponent"
    /\ turn(game.fen) # humanSide(Cur)
    /\ pending # EmptyBag

\* the rule of C27 for the moves accepted in s: the engine requests the
\* move adds to those outstanding
moveThenRequest(s) ==
    \A d \in Drops :
      LET r == onDrop(s, d[1], d[2])
          fen == r.st.game.fen
          added(req) == CopiesIn(req, r.st.pending) - CopiesIn(req, s.pending)
          engineRequests == {[kind |-> "engine", fen |-> p] : p \in Positions}
      IN  r.ret =>
            IF /\ Mode(s) = "EngineOpponent"
               /\ ~isGameOver(fen)
               /\ turn(fen) # humanSide(s)
            THEN \A req \in engineRequests :
                   added(req) = IF req.fen = fen THEN 1 ELSE 0
            ELSE \A req \in engineRequests : added(req) = 0

\* C27: in EngineOpponent mode every accepted human move that does not end
\* the game and leaves the other side to move requests an engine move exactly
\* once, for the resulting position; no engine move is requested when the
\* move ends the game, nor in ChatAnnotated or Live mode.  The rule is
\* stated of every reachable state and of the state each outstanding engine
\* request leaves when it completes.
C27_EngineRequestedOnce ==
    /\ moveThenRequest(Cur)
    /\ \A req \in BagToSet(pending) : \A eval \in EvalResults :
         req.kind = "engine" => moveThenRequest(engineReply(Cur, req.fen, eval))

\* C27 witness: the human's move has just been accepted against the engine
\* and the request for the resulting position is outstanding.
C27_Witness ==
    /\ lastOp = [op |-> "onDrop", ret |-> TRUE]
    /\ Mode(Cur) = "EngineOpponent"
    /\ ~isGameOver(game.fen)
    /\ engineThinking
    /\ CopiesIn([kind |-> "engine", fen |-> game.fen], pending) = 1

\* the game-ending case of C27 occurs: the human mates the engine
C27_MateCase ==
    \E req \in BagToSet(pending) : \E eval \in EvalResults : \E d \in Drops :
      /\ req.kind = "engine"
      /\ LET s == engineReply(Cur, req.fen, eval)
             r == onDrop(s, d[1], d[2])
         IN  r.ret /\ Mode(s) = "EngineOpponent" /\ isGameOver(r.st.game.fen)

\* C28: the suggestion is tried on the position the request was made for
\* before it is applied: a completed engine request leaves the Move Log as
\* it was or appends the result of one legal move from that position, and
\* a suggestion that is no move there, or no move at all, yields no move.
C28_SuggestionRevalidated ==
    \A req \in BagToSet(pending) : \A eval \in EvalResults :
      req.kind = "engine" =>
        LET t == engineReply(Cur, req.fen, eval)
            suggested == {m \in MoveIds : eval.found /\ uci(m) = eval.moves}
        IN  /\ \/ t.moveHistory = moveHistory
               \/ \E m \in MoveIds :
                    /\ legal(req.fen, m)
                    /\ t.moveHistory = Append(moveHistory, req.fen \cup {m})
                    /\ t.game.fen = req.fen \cup {m}
            /\ (\A m \in suggested : ~legal(req.fen, m)) =>
                  t.moveHistory = moveHistory /\ t.game = game

\* C28 witness: an engine request has just completed with a move, which is
\* the last entry of the Move Log.
C28_Witness ==
    /\ lastOp = [op |-> "engineMoveDone", ret |-> TRUE]
    /\ Len(moveHistory) = 2
    /\ game.fen = moveHistory[2]
    /\ Mode(Cur) = "EngineOpponent"

\* C23: without a usable narrative client (engine not configured, or the
\* narrative request failing) analyzePosition still makes the evaluation and
\* opening lookups, and the Analysis Record holds what they gave together
\* with the placeholder narrative.
C23_LookupsNotGated ==
    \A evalOut \in EvalOutcomes, openOut \in OpeningOutcomes,
       narrOut \in NarrativeOutcomes :
      LET a == analyzePosition(engine, evalOut, openOut, narrOut)
      IN  (shortCircuits(engine) \/ narrOut # "text") =>
            /\ {"evaluation", "opening"} \subseteq a.called
            /\ a.analysis.lichessEval = formatEvaluation(evalOut)
            /\ a.analysis.openingInfo = formatOpeningInfo(openOut)
            /\ a.analysis.detailedAnalysis = fallbackAnalysis.detailedAnalysis

\* the chat-mode move a drop makes in state s, if it makes one
chatMoveOf(s, d) ==
    {m \in MoveIds : /\ Origin(m) = d[1] /\ Target(m) = d[2]
                     /\ legal(s.game.fen, m)
                     /\ Mode(s) = "ChatAnnotated"}

aiEntry(analysis) == [role |-> "ai", content |-> formattedResponse(analysis)]
analysisRequest == [kind |-> "analysis"]

\* every outcome of an outstanding analysis request of state s adds exactly
\* one ai entry at the end of the transcript and clears the thinking flag
completionAppendsAi(s) ==
    \A evalOut \in EvalOutcomes, openOut \in OpeningOutcomes,
       narrOut \in NarrativeOutcomes :
      LET reply == analysisReply(evalOut, openOut, narrOut)
          t == analysisDone([s EXCEPT !.pending = @ (-) SetToBag({analysisRequest})],
                            reply)
      IN  /\ t.chatHistory = Append(s.chatHistory, aiEntry(reply))
          /\ ~t.engineThinking
          /\ narrOut # "text" =>
                reply.detailedAnalysis = fallbackAnalysis.detailedAnalysis

\* C24: in ChatAnnotated mode every accepted move leads to one ai entry and
\* to the thinking flag being false, whatever the narrative client does.
\* With an engine that is not configured the ai entry is there when the
\* handler is done and carries the fallback narrative; with a configured
\* engine one analysis request is outstanding, and in every reachable state
\* the completion of an outstanding request, whatever the three clients
\* answered, appends exactly one ai entry and clears the flag.
C24_ChatMoveAnswered ==
    /\ \A d \in Drops : \A m \in chatMoveOf(Cur, d) :
         LET r == onDrop(Cur, d[1], d[2])
         IN  /\ r.ret
             /\ IF shortCircuits(engine)
                THEN /\ Len(r.st.chatHistory) = Len(chatHistory) + 2
                     /\ r.st.chatHistory[Len(r.st.chatHistory)] = aiEntry(fallbackAnalysis)
                     /\ fallbackAnalysis.detailedAnalysis \in
                          {r.st.chatHistory[Len(r.st.chatHistory)].content[i] :
                             i \in 1..Len(r.st.chatHistory[Len(r.st.chatHistory)].content)}
                     /\ ~r.st.engineThinking
                     /\ r.st.pending = pending
                ELSE /\ r.st.pending = pending (+) SetToBag({analysisRequest})
                     /\ r.st.engineThinking
                     /\ completionAppendsAi(r.st)
    /\ analysisRequest \in BagToSet(pending) => completionAppendsAi(Cur)

\* C24 witness: the analysis of a move made in chat mode has been delivered
\* by the services; the transcript ends with its ai entry.
C24_Witness ==
    /\ lastOp = [op |-> "analysisDone", ret |-> TRUE]
    /\ Mode(Cur) = "ChatAnnotated"
    /\ Len(chatHistory) = 2
    /\ chatHistory[1].role = "player"
    /\ chatHistory[2].role = "ai"
    /\ ~engineThinking
    /\ pending = EmptyBag

\* C25: when no key has been configured, or the key submitted last has an
\* invalid format, analyzePosition returns the fallback without calling the
\* narrative, evaluation or opening client.
C25_InvalidKeyShortCircuits ==
    \A evalOut \in EvalOutcomes, openOut \in OpeningOutcomes,
       narrOut \in NarrativeOutcomes :
      /\ engine.apiKey = <<>> =>
            analyzePosition(engine, evalOut, openOut, narrOut).called = {}
      /\ \A key \in Keys, sdkOk \in BOOLEAN :
            ~validateApiKey(key) =>
              LET a == analyzePosition(setApiKey(engine, key, sdkOk).st,
                                       evalOut, openOut, narrOut)
              IN  a.called = {} /\ a.analysis = fallbackAnalysis

\* the player entry makeMove writes for move m played in position fen
playerEntry(fen, m) ==
    [role |-> "player", content |-> <<"Played move: ", san(fen, m)>>]

\* C29: in ChatAnnotated mode an accepted move appends the player entry
\* naming the move before the analysis is requested, and the ai entry with
\* the formatted Analysis Record is appended after it: the completion of an
\* analysis request appends the ai entry at the end of the transcript in
\* every reachable state, and no step reorders the transcript (a step
\* appends to it, clears it or leaves it alone), so the player entry of a
\* move comes before the ai entry of that move.
C29_PlayerEntryBeforeAi ==
    /\ [](/\ \A d \in Drops : \A m \in chatMoveOf(Cur, d) :
              LET r == onDrop(Cur, d[1], d[2])
                  entry == playerEntry(game.fen, m)
              IN  IF shortCircuits(engine)
                  THEN r.st.chatHistory =
                         chatHistory \o <<entry, aiEntry(fallbackAnalysis)>>
                  ELSE /\ r.st.chatHistory = Append(chatHistory, entry)
                       /\ CopiesIn(analysisRequest, r.st.pending) =
                            CopiesIn(analysisRequest, pending) + 1
                       /\ \A evalOut \in EvalOutcomes, openOut \in OpeningOutcomes,
                             narrOut \in NarrativeOutcomes :
                            LET reply == analysisReply(evalOut, openOut, narrOut)
                            IN  analysisDone(r.st, reply).chatHistory =
                                  chatHistory \o <<entry, aiEntry(reply)>>
          /\ analysisRequest \in BagToSet(pending) =>
               \A evalOut \in EvalOutcomes, openOut \in OpeningOutcomes,
                  narrOut \in NarrativeOutcomes :
                 LET reply == analysisReply(evalOut, openOut, narrOut)
                 IN  analysisDone(Cur, reply).chatHistory =
                       Append(chatHistory, aiEntry(reply)))
    /\ [][\/ chatHistory' = <<>>
          \/ /\ Len(chatHistory') >= Len(chatHistory)
             /\ SubSeq(chatHistory', 1, Len(chatHistory)) = chatHistory]_vars

\* C29 witness: a move has just been accepted in chat mode with no key
\* configured; the transcript is the player entry followed by the ai entry.
C29_Witness ==
    /\ lastOp = [op |-> "onDrop", ret |-> TRUE]
    /\ Mode(Cur) = "ChatAnnotated"
    /\ Len(chatHistory) = 2
    /\ chatHistory[1].role = "player"
    /\ chatHistory[1].content[2] \in MoveIds
    /\ chatHistory[2] = aiEntry(fallbackAnalysis)

\* C30: when exactly one of the evaluation, opening and narrative requests
\* fails, the Analysis Record holds what the other two gave and only the
\* failed component is reported as having no data.
C30_IndependentDegradation ==
    ~shortCircuits(engine) =>
      \A evalOut \in EvalOutcomes, openOut \in {"data", "none"},
         narrOut \in NarrativeOutcomes :
        LET a == analyzePosition(engine, evalOut, openOut, narrOut).analysis
            failures == (IF evalOut = "none" THEN 1 ELSE 0)
                        + (IF openOut = "none" THEN 1 ELSE 0)
                        + (IF narrOut # "text" THEN 1 ELSE 0)
        IN  failures = 1 =>
              /\ a.lichessEval = formatEvaluation(evalOut)
              /\ a.openingInfo = formatOpeningInfo(openOut)
              /\ (narrOut = "text") =
                    (a.detailedAnalysis # fallbackAnalysis.detailedAnalysis)

\* chatHistory' keeps chatHistory as its beginning
transcriptKept == /\ Len(chatHistory') >= Len(chatHistory)
                  /\ SubSeq(chatHistory', 1, Len(chatHistory)) = chatHistory

\* the operations that change the session mode, as lastOp names them, and
\* the start of a session
ModeChangeOps == {"handleNewGame", "handleStopPgnAnalysis", "handleChatMode",
                  "handleColorSelect", "handleImportPGN"}
SessionStartOps == {"mount", "restoreSavedPgn"}

\* C31: the transcript is empty right after every operation that changes
\* the session mode (EnterEngineOpponentMode, ToggleChatAnnotatedMode,
\* ImportReplay, ExitReplay, StartNewGame), and within a session no other
\* operation removes or reorders entries.
C31_TranscriptClearedOnModeChange ==
    /\ [](/\ handleNewGame(Cur).chatHistory = <<>>
          /\ handleStopPgnAnalysis(Cur).chatHistory = <<>>
          /\ handleChatMode(Cur).chatHistory = <<>>
          /\ \A color \in {"white", "black"} :
               handleColorSelect(handlePlayEngine(Cur), color).chatHistory = <<>>
          /\ \A pgnText \in PgnTexts :
               LET r == handleImportPGN(Cur, pgnText)
               IN  r.ret => r.st.chatHistory = <<>>)
    /\ [][lastOp'.op \notin (ModeChangeOps \cup SessionStartOps) => transcriptKept]_vars

\* the operations that leave a session mode, applied to s
modeChanges(s) ==
    {handleNewGame(s), handleStopPgnAnalysis(s), handleChatMode(s),
     handleColorSelect(handlePlayEngine(s), "white")}
    \cup {handleImportPGN(s, pgnText).st : pgnText \in PgnTexts}

\* C32: an outstanding analysis request is not cancelled by a new game or a
\* mode change: after the operation the request is still outstanding, and
\* its completion appends the ai entry to the transcript that exists then.
C32_NoCancellation ==
    analysisRequest \in BagToSet(pending) =>
      \A s \in modeChanges(Cur) :
        /\ CopiesIn(analysisRequest, s.pending) = CopiesIn(analysisRequest, pending)
        /\ \A evalOut \in EvalOutcomes, openOut \in OpeningOutcomes,
              narrOut \in NarrativeOutcomes :
             LET reply == analysisReply(evalOut, openOut, narrOut)
                 t == analysisDone([s EXCEPT !.pending = @ (-) SetToBag({analysisRequest})],
                                   reply)
             IN  t.chatHistory = Append(s.chatHistory, aiEntry(reply))

\* C32 witness: the analysis of a chat-mode move has been delivered after a
\* new game was started; its ai entry is alone in the transcript of Live
\* mode.
C32_Witness ==
    /\ lastOp = [op |-> "analysisDone", ret |-> TRUE]
    /\ Mode(Cur) = "Live"
    /\ moveHistory = <<>>
    /\ Len(chatHistory) = 1
    /\ chatHistory[1].role = "ai"

\* C33: engineThinking is true in every state in which an engine-move or
\* analysis request is outstanding and false when none is.
C33_ThinkingIffOutstanding ==
    engineThinking <=> pending # EmptyBag

\* C34: EnterEngineOpponentMode(color) (the colour chosen in the dialog the
\* Play vs Engine button opens) gives mode EngineOpponent, human colour and
\* board orientation color, the starting position, an empty Move Log, an
\* empty transcript and cursor -1, from every state in which the button is
\* enabled and from every state in which the dialog is open, whatever was
\* imported in between.
C34_EnterEngineModeResets ==
    \A color \in {"white", "black"} :
      \A s \in (IF ControlsReachable /\ ~playingAgainstEngine /\ ~(chatMode \/ isPgnMode)
                 THEN {handlePlayEngine(Cur)} ELSE {})
                \cup (IF showColorModal THEN {Cur} ELSE {}) :
        LET t == handleColorSelect(s, color)
        IN  /\ Mode(t) = "EngineOpponent"
            /\ t.playerColor = color
            /\ t.boardOrientation = color
            /\ t.game.fen = StartFen
            /\ t.moveHistory = <<>>
            /\ t.chatHistory = <<>>
            /\ t.currentMoveIndex = -1

\* C35: the Move Log is a legal game line: its first entry is the result
\* of one legal move from the starting position and every later entry the
\* result of one legal move from the entry before it.
C35_LogIsLegalLine ==
    \A i \in 1..Len(moveHistory) :
      LET prev == IF i = 1 THEN StartFen ELSE moveHistory[i - 1]
      IN  \E m \in MoveIds : legal(prev, m) /\ moveHistory[i] = prev \cup {m}

\* C36: while a replay is shown the Move Log changes only through
\* ImportReplay, ExitReplay or StartNewGame and the displayed position only
\* through those and NavigateTo, within a session; the reply to an engine
\* request made before the import changes neither.
C36_ReplayReadOnly ==
    /\ [](isPgnMode =>
            \A req \in BagToSet(pending) : \A eval \in EvalResults :
              req.kind = "engine" =>
                LET t == engineReply(Cur, req.fen, eval)
                IN  t.moveHistory = moveHistory /\ t.game = game)
    /\ [][(isPgnMode /\ isPgnMode' /\ lastOp'.op \notin SessionStartOps) =>
            /\ moveHistory' # moveHistory =>
                  lastOp'.op \in {"handleImportPGN", "handleStopPgnAnalysis",
                                  "handleNewGame"}
            /\ game' # game =>
                  lastOp'.op \in {"handleImportPGN", "handleStopPgnAnalysis",
                                  "handleNewGame", "navigateMove",
                                  "handlePrevMove", "handleNextMove"}]_vars

\* C37: in EngineOpponent mode, whenever no engine request is outstanding
\* and the game is not over, the side to move is the human's.
C37_HumanCanMove ==
    (Mode(Cur) = "EngineOpponent"
       /\ ~\E req \in BagToSet(pending) : req.kind = "engine"
       /\ ~isGameOver(game.fen)) =>
      turn(game.fen) = humanSide(Cur)

\* the session after each sequence of at most two NavigateTo calls on s
afterNavigation(s) ==
    LET indexes == -1..(Len(s.fullMoveHistory) - 1)
        one == {navigateMove(s, i) : i \in indexes}
    IN  {s} \cup one \cup {navigateMove(s1, i) : s1 \in one, i \in indexes}

\* C38: for a replay session reached by ImportReplay followed by NavigateTo
\* calls, a fresh session restored from what that session stored has the
\* same Move Log, notation history, cursor, mode and displayed position.
C38_RestoreRoundTrip ==
    \A pgnText \in PgnTexts :
      LET r == handleImportPGN(Cur, pgnText)
      IN  r.ret =>
            \A s \in afterNavigation(r.st) :
              LET fresh == restoreSavedPgn(s.localStorage)
              IN  /\ fresh.moveHistory = s.moveHistory
                  /\ fresh.fullMoveHistory = s.fullMoveHistory
                  /\ fresh.currentMoveIndex = s.currentMoveIndex
                  /\ Mode(fresh) = Mode(s)
                  /\ fresh.game.fen = s.game.fen

====
